---- MODULE Spec2Model ----
(***************************************************************************)
(* A model of pygc's post-processing core: the weighted axis reduction     *)
(* (wmean), the derived-field engine (add_derived_fields), the supernova   *)
(* binning (count_SNe), the time aggregation (sum_dataset) and the         *)
(* equilibrium-temperature solver (LPthres.get_Teq).                       *)
(*                                                                         *)
(* Numbers.  An array cell is an IEEE-754 double, as numpy's float64:      *)
(*   [kind |-> "fin", sign, exp, man]   sign * man * 2^exp                 *)
(*   [kind |-> "inf", sign, ...]        +infinity, -infinity               *)
(*   [kind |-> "nan", ...]              not-a-number                       *)
(* Every operation rounds to the nearest double, ties to even; the two     *)
(* zeros are distinct values that compare equal.                           *)
(***************************************************************************)
EXTENDS Integers, Sequences, FiniteSets, TLC

VARIABLES
    dat,    \* engine: the caller's Dataset
    ret,    \* engine: what the last call returned (tmp, or None)
    call,   \* engine: record of the last call (arguments, dataset before, outcome)
    wm,     \* wmean: arguments and result
    gz,     \* gz_sg on a linear potential: arguments and result
    sne,    \* count_SNe: arguments and result
    agg,    \* sum_dataset: arguments, loop position, running sum
    teq     \* get_Teq: arguments and result

vars == <<dat, ret, call, wm, gz, sne, agg, teq>>

Idle == [pc |-> "idle"]

----------------------------------------------------------------------------
(* Natural numbers of any size: sequences of limbs in base 2^15, least     *)
(* significant first, no zero limb at the top; <<>> is 0.                  *)

Base == 32768

Max2(i, j) == IF i > j THEN i ELSE j
Min2(i, j) == IF i < j THEN i ELSE j
RECURSIVE BTrim(_)
BTrim(a) ==
    IF a = <<>> THEN a
    ELSE IF a[Len(a)] = 0 THEN BTrim(SubSeq(a, 1, Len(a) - 1))
    ELSE a

RECURSIVE BFromInt(_)
BFromInt(n) == IF n = 0 THEN <<>> ELSE <<n % Base>> \o BFromInt(n \div Base)

RECURSIVE BToInt(_)
BToInt(a) == IF a = <<>> THEN 0 ELSE a[1] + Base * BToInt(Tail(a))

\* the limb of a at place i, 0 beyond its length
Limb(a, i) == IF i <= Len(a) THEN a[i] ELSE 0

\* the limbs of a + b + c from place i on, x the sum at place i
RECURSIVE BAddC(_, _, _, _)
BAddC(a, b, i, x) ==
    IF i > Len(a) /\ i > Len(b) THEN (IF x = 0 THEN <<>> ELSE <<x>>)
    ELSE <<x % Base>> \o BAddC(a, b, i + 1, Limb(a, i + 1) + Limb(b, i + 1) + x \div Base)

BAdd(a, b) == BAddC(a, b, 1, Limb(a, 1) + Limb(b, 1))

\* the limbs of a - b from place i on, x the difference at place i (a
\* borrow makes it negative)
RECURSIVE BSubB(_, _, _, _)
BSubB(a, b, i, x) ==
    IF i > Len(a) THEN <<>>
    ELSE <<(x + Base) % Base>>
             \o BSubB(a, b, i + 1, Limb(a, i + 1) - Limb(b, i + 1) - (IF x < 0 THEN 1 ELSE 0))

\* a - b, for a >= b
BSub(a, b) == BTrim(BSubB(a, b, 1, Limb(a, 1) - Limb(b, 1)))

RECURSIVE BCmpAt(_, _, _)
BCmpAt(a, b, i) ==
    IF i = 0 THEN 0
    ELSE IF a[i] # b[i] THEN (IF a[i] < b[i] THEN -1 ELSE 1)
    ELSE BCmpAt(a, b, i - 1)

\* -1, 0, 1 as a < b, a = b, a > b
BCmp(a, b) ==
    IF Len(a) # Len(b) THEN (IF Len(a) < Len(b) THEN -1 ELSE 1)
    ELSE BCmpAt(a, b, Len(a))

\* the limbs of a * k from place i on, x the product at place i with the
\* carry
RECURSIVE BMulSmallC(_, _, _, _)
BMulSmallC(a, k, i, x) ==
    IF i > Len(a) THEN (IF x = 0 THEN <<>> ELSE <<x>>)
    ELSE <<x % Base>> \o BMulSmallC(a, k, i + 1, Limb(a, i + 1) * k + x \div Base)

\* a * k, for 0 <= k <= Base
BMulSmall(a, k) ==
    IF k = 0 THEN <<>> ELSE IF k = 1 THEN a ELSE BMulSmallC(a, k, 1, Limb(a, 1) * k)

\* a * b: a times the lowest limb of b, and Base times the product of a
\* with the higher limbs
RECURSIVE BMul(_, _)
BMul(a, b) ==
    IF a = <<>> \/ b = <<>> THEN <<>>
    ELSE IF Len(b) = 1 THEN BMulSmall(a, b[1])
    ELSE BAdd(BMulSmall(a, b[1]), <<0>> \o BMul(a, Tail(b)))

\* a * 2^n
BShl(a, n) ==
    IF a = <<>> \/ n = 0 THEN a
    ELSE [i \in 1..(n \div 15) |-> 0] \o BMulSmall(a, 2 ^ (n % 15))

\* the limbs of the quotient of a by k from place i down, r the remainder
\* of the limbs above
RECURSIVE BDivSmall(_, _, _, _)
BDivSmall(a, k, i, r) ==
    IF i = 0 THEN <<>>
    ELSE BDivSmall(a, k, i - 1, (r * Base + a[i]) % k) \o <<(r * Base + a[i]) \div k>>

\* the floor of a / 2^n
BShr(a, n) ==
    IF n = 0 THEN a
    ELSE IF n \div 15 >= Len(a) THEN <<>>
    ELSE BTrim(BDivSmall(SubSeq(a, (n \div 15) + 1, Len(a)), 2 ^ (n % 15),
                         Len(a) - (n \div 15), 0))

RECURSIVE BitLenInt(_)
BitLenInt(x) == IF x = 0 THEN 0 ELSE 1 + BitLenInt(x \div 2)

BBitLen(a) == IF a = <<>> THEN 0 ELSE 15 * (Len(a) - 1) + BitLenInt(a[Len(a)])

RECURSIVE TzInt(_)
TzInt(x) == IF x % 2 = 1 THEN 0 ELSE 1 + TzInt(x \div 2)

\* the number of trailing zero bits of a # 0
RECURSIVE BTz(_)
BTz(a) == IF a[1] = 0 THEN 15 + BTz(Tail(a)) ELSE TzInt(a[1])

\* long division, one limb of the quotient at a time: the largest digit
\* q <= guess with q * d <= cur
RECURSIVE BDigit(_, _, _)
BDigit(cur, d, q) ==
    IF BCmp(BMulSmall(d, q), cur) > 0 THEN BDigit(cur, d, q - 1) ELSE q

\* the quotient so far with one more digit q (no zero at the top), and
\* what is left of cur
BDivOut(hi, cur, d, q) ==
    [q |-> IF q = 0 /\ hi.q = <<>> THEN <<>> ELSE <<q>> \o hi.q,
     r |-> BSub(cur, BMulSmall(d, q))]

\* the guess is the two limbs of cur that face the top limb of d, divided
\* by that limb
BDivStep(hi, cur, d) ==
    BDivOut(hi, cur, d, BDigit(cur, d, Min2(Base - 1,
                (Limb(cur, Len(d) + 1) * Base + Limb(cur, Len(d))) \div d[Len(d)])))

\* n divided by d, the top limb of d at least Base / 2; hi is the division
\* of the limbs above the lowest
BDivLow(n, d, hi) ==
    IF hi.r = <<>> /\ n[1] = 0
    THEN [q |-> IF hi.q = <<>> THEN <<>> ELSE <<0>> \o hi.q, r |-> <<>>]
    ELSE BDivStep(hi, <<n[1]>> \o hi.r, d)

RECURSIVE BDivModN(_, _)
BDivModN(n, d) ==
    IF n = <<>> THEN [q |-> <<>>, r |-> <<>>]
    ELSE BDivLow(n, d, BDivModN(Tail(n), d))

\* the floor q of n / d, d # 0, and a remainder r that is <<>> when the
\* division is exact: both are shifted to bring the top limb of d to
\* Base / 2 and more
BDiv(n, d) ==
    BDivModN(BShl(n, 15 - BitLenInt(d[Len(d)])), BShl(d, 15 - BitLenInt(d[Len(d)])))

\* the floor of the square root of n # 0 (Newton's iteration from above):
\* y is the step after x
RECURSIVE BSqrtFrom(_, _, _)
BSqrtFrom(n, x, y) ==
    IF BCmp(y, x) >= 0 THEN x
    ELSE BSqrtFrom(n, y, BShr(BAdd(y, BDiv(n, y).q), 1))

BSqrt(n) ==
    BSqrtFrom(n, BShl(<<1>>, (BBitLen(n) + 1) \div 2),
              BShr(BAdd(BShl(<<1>>, (BBitLen(n) + 1) \div 2),
                        BDiv(n, BShl(<<1>>, (BBitLen(n) + 1) \div 2)).q), 1))

----------------------------------------------------------------------------
(* IEEE-754 binary64, the float64 of numpy and the float of Python, with   *)
(* round-to-nearest-even.  A finite number is sign * man * 2^exp with man  *)
(* odd (or man = 0, exp = 0 for the two zeros), so every value has one     *)
(* representation.                                                         *)

Precision == 53
MinExp == -1074
MaxBits == 1024

Fin(s, e, m) == [kind |-> "fin", sign |-> s, exp |-> e, man |-> m]
Inf(s) == [kind |-> "inf", sign |-> s, exp |-> 0, man |-> <<>>]
Zero(s) == Fin(s, 0, <<>>)

NaN == [kind |-> "nan", sign |-> 1, exp |-> 0, man |-> <<>>]
IsNaN(a) == a.kind = "nan"
IsFinite(a) == a.kind = "fin"
IsZero(a) == a.kind = "fin" /\ a.man = <<>>

\* s * m * 2^e, m of at most 53 bits, its trailing zero bits moved into
\* the exponent: infinity from 2^1024 on
Pack(s, m, e) ==
    IF m = <<>> THEN Zero(s)
    ELSE IF BBitLen(m) + e > MaxBits THEN Inf(s)
    ELSE Fin(s, e + BTz(m), BShr(m, BTz(m)))

\* q or q + 1 as the bits dropped compare (c) with half a unit of q:
\* above, or a tie with q odd, rounds up
TieEven(q, c) == IF c > 0 \/ (c = 0 /\ (q # <<>> /\ q[1] % 2 = 1)) THEN BAdd(q, <<1>>) ELSE q

\* n without its lowest drop bits, to nearest; q is the floor of n / 2^drop
Nearest(n, drop, q) ==
    TieEven(q, BCmp(BSub(n, BShl(q, drop)), BShl(<<1>>, drop - 1)))

RoundOff(s, n, e, drop) ==
    IF drop = 0 THEN Pack(s, n, e)
    ELSE Pack(s, Nearest(n, drop, BShr(n, drop)), e + drop)

\* the double nearest to s * n * 2^e (ties to even); subnormals below
\* 2^-1022, infinity from 2^1024 on
Round(s, n, e) ==
    IF n = <<>> THEN Zero(s)
    ELSE RoundOff(s, n, e, Max2(0, Max2(BBitLen(n) - Precision, MinExp - e)))

\* the double nearest to the exact value r = [sign, man, exp]
RoundRec(r) == Round(r.sign, r.man, r.exp)

Exact(s, n, e) == [sign |-> s, man |-> n, exp |-> e]

\* an integer as a double
Num(i) == Round(IF i < 0 THEN -1 ELSE 1, BFromInt(IF i < 0 THEN -i ELSE i), 0)

Neg(a) == IF IsNaN(a) THEN a ELSE [a EXCEPT !.sign = -a.sign]
FAbs(a) == IF IsNaN(a) THEN a ELSE [a EXCEPT !.sign = 1]

\* the sum of two finite non-zero doubles of magnitudes hi > lo so far apart
\* that lo only decides the direction of rounding
AddFar(hi, lo) ==
    Exact(hi.sign,
          IF hi.sign = lo.sign THEN BAdd(BShl(hi.man, Precision + 3), <<1>>)
          ELSE BSub(BShl(hi.man, Precision + 3), <<1>>),
          hi.exp - (Precision + 3))

\* sa * na * 2^e + sb * nb * 2^e, exactly; +0 when the two cancel
AddAligned(sa, na, sb, nb, e) ==
    IF sa = sb THEN Exact(sa, BAdd(na, nb), e)
    ELSE IF na = nb THEN Exact(1, <<>>, e)
    ELSE IF BCmp(na, nb) > 0 THEN Exact(sa, BSub(na, nb), e)
    ELSE Exact(sb, BSub(nb, na), e)

\* the sum of two finite non-zero doubles before rounding
AddExact(a, b) ==
    IF a.exp - (b.exp + BBitLen(b.man)) >= Precision + 3 THEN AddFar(a, b)
    ELSE IF b.exp - (a.exp + BBitLen(a.man)) >= Precision + 3 THEN AddFar(b, a)
    ELSE AddAligned(a.sign, BShl(a.man, a.exp - Min2(a.exp, b.exp)),
                    b.sign, BShl(b.man, b.exp - Min2(a.exp, b.exp)),
                    Min2(a.exp, b.exp))

Add(a, b) ==
    IF IsNaN(a) \/ IsNaN(b) THEN NaN
    ELSE IF ~IsFinite(a) /\ ~IsFinite(b) THEN (IF a.sign = b.sign THEN a ELSE NaN)
    ELSE IF ~IsFinite(a) THEN a
    ELSE IF ~IsFinite(b) THEN b
    ELSE IF IsZero(a) /\ IsZero(b) THEN Zero(IF a.sign = b.sign THEN a.sign ELSE 1)
    ELSE IF IsZero(a) THEN b
    ELSE IF IsZero(b) THEN a
    ELSE RoundRec(AddExact(a, b))

Sub(a, b) == Add(a, Neg(b))

Mul(a, b) ==
    IF IsNaN(a) \/ IsNaN(b) THEN NaN
    ELSE IF ~IsFinite(a) \/ ~IsFinite(b)
         THEN (IF IsZero(a) \/ IsZero(b) THEN NaN ELSE Inf(a.sign * b.sign))
    ELSE Round(a.sign * b.sign, BMul(a.man, b.man), a.exp + b.exp)

\* the quotient r of the mantissas (floor and exactness) as an exact value:
\* an inexact one gets a sticky bit below
Quotient(s, r, e) ==
    IF r.r = <<>> THEN Exact(s, r.q, e)
    ELSE Exact(s, BAdd(BShl(r.q, 1), <<1>>), e - 1)

\* the quotient of two finite non-zero doubles before rounding: the
\* dividend is shifted to give the quotient 53 bits and more
DivExact(a, b) ==
    IF b.man = <<1>> THEN Exact(a.sign * b.sign, a.man, a.exp - b.exp)
    ELSE Quotient(a.sign * b.sign,
                  BDiv(BShl(a.man, Max2(0, Precision + 3 + BBitLen(b.man) - BBitLen(a.man))),
                       b.man),
                  a.exp - b.exp - Max2(0, Precision + 3 + BBitLen(b.man) - BBitLen(a.man)))

\* numpy true division: x/0 is +-inf, 0/0 is nan (a warning, no exception)
Div(a, b) ==
    IF IsNaN(a) \/ IsNaN(b) THEN NaN
    ELSE IF ~IsFinite(a) THEN (IF IsFinite(b) THEN Inf(a.sign * b.sign) ELSE NaN)
    ELSE IF ~IsFinite(b) THEN Zero(a.sign * b.sign)
    ELSE IF IsZero(b) THEN (IF IsZero(a) THEN NaN ELSE Inf(a.sign * b.sign))
    ELSE IF IsZero(a) THEN Zero(a.sign * b.sign)
    ELSE RoundRec(DivExact(a, b))

\* the root x of n (floor) as an exact value: an inexact one gets a sticky
\* bit below
Root(n, x, e) ==
    IF BMul(x, x) = n THEN Exact(1, x, e)
    ELSE Exact(1, BAdd(BShl(x, 1), <<1>>), e - 1)

SqrtShifted(a, sh) == Root(BShl(a.man, sh), BSqrt(BShl(a.man, sh)), (a.exp - sh) \div 2)

\* np.sqrt: nan for negatives (a warning, no exception); the shift gives
\* the root 53 bits and more and leaves the exponent even
Sqrt(a) ==
    IF IsNaN(a) THEN NaN
    ELSE IF IsZero(a) THEN a
    ELSE IF a.sign < 0 THEN NaN
    ELSE IF ~IsFinite(a) THEN a
    ELSE RoundRec(SqrtShifted(a, Max2(0, 2 * Precision + 4 - BBitLen(a.man))
                 + ((a.exp - Max2(0, 2 * Precision + 4 - BBitLen(a.man))) % 2)))

RECURSIVE Pow10(_)
Pow10(k) == IF k = 0 THEN <<1>> ELSE BMulSmall(Pow10(k - 1), 10)

\* the decimal literal n * 10^-k as Python reads it: n and 10^k are doubles
\* (|n| < 2^31, k <= 22), so their quotient is the double nearest the literal
Dec(n, k) == Div(Num(n), Round(1, Pow10(k), 0))

\* a == b as floats compare: nan equals nothing, the two zeros are equal
Eq(a, b) == ~IsNaN(a) /\ ~IsNaN(b) /\ (a = b \/ (IsZero(a) /\ IsZero(b)))

\* the order of the magnitudes of two finite non-zero doubles whose top
\* bits stand at ta and tb: -1, 0, 1
CmpTop(a, b, ta, tb) ==
    IF ta # tb THEN (IF ta < tb THEN -1 ELSE 1)
    ELSE BCmp(BShl(a.man, a.exp - Min2(a.exp, b.exp)),
              BShl(b.man, b.exp - Min2(a.exp, b.exp)))

\* a < b as floats compare: False whenever an operand is nan
Less(a, b) ==
    /\ ~IsNaN(a) /\ ~IsNaN(b)
    /\ ~Eq(a, b)
    /\ IF ~IsFinite(a) THEN a.sign < 0
       ELSE IF ~IsFinite(b) THEN b.sign > 0
       ELSE IF IsZero(a) THEN b.sign > 0
       ELSE IF IsZero(b) THEN a.sign < 0
       ELSE IF a.sign # b.sign THEN a.sign < 0
       ELSE a.sign * CmpTop(a, b, a.exp + BBitLen(a.man), b.exp + BBitLen(b.man)) < 0

\* np.floor
Floor(a) ==
    IF ~IsFinite(a) \/ a.exp >= 0 THEN a
    ELSE IF a.sign > 0 THEN Round(1, BShr(a.man, -a.exp), 0)
    ELSE Round(-1, BAdd(BShr(a.man, -a.exp), <<1>>), 0)


\* astype('int32') of an integral double of small magnitude
ToInt(a) == a.sign * BToInt(BShl(a.man, a.exp))

\* both not-a-number, or equal as floats compare
Same(a, b) == (IsNaN(a) /\ IsNaN(b)) \/ Eq(a, b)

\* np.sum along an axis of fewer than 8 cells: the first cell, then every
\* next one added in order; 0 for no cell
RECURSIVE Sum(_)
Sum(s) ==
    IF s = <<>> THEN Zero(1)
    ELSE IF Len(s) = 1 THEN s[1]
    ELSE Add(Sum(SubSeq(s, 1, Len(s) - 1)), s[Len(s)])

\* xarray's sum(dim) with skipna: every nan cell is replaced by 0, then
\* np.sum
NanSum(s) == Sum([k \in DOMAIN s |-> IF IsNaN(s[k]) THEN Zero(1) ELSE s[k]])

\* elementwise operations on columns (sequences along z)
ColMul(a, b) == [k \in DOMAIN a |-> Mul(a[k], b[k])]
----------------------------------------------------------------------------
(* wmean(arr, weights, dim): arrays are [column -> sequence along dim].    *)

\* the mutant: the denominator forgets the notnull mask
wmean_col_nomask(arr, weights) ==
    Div(NanSum(ColMul(arr, weights)), NanSum(weights))

\* one position of the other axes; weights.where(arr.notnull()) is nan
\* where arr is
wmean_col(arr, weights) ==
    Div(NanSum(ColMul(arr, weights)),
        NanSum([k \in DOMAIN weights |-> IF ~IsNaN(arr[k]) THEN weights[k] ELSE NaN]))

wmean(arr, weights) == [c \in DOMAIN arr |-> wmean_col(arr[c], weights[c])]

\* bounds of the wmean inputs
WmeanLen == 2
WmeanCols == {1, 2}
WmeanInit ==
    /\ wm \in [pc : {"args"},
               arr : [WmeanCols -> [1..WmeanLen -> {NaN, Dec(1, 1), Num(2)}]],
               weights : [WmeanCols -> [1..WmeanLen -> {NaN, Num(1), Num(3)}]]]
    /\ dat = Idle /\ ret = Idle /\ call = Idle
    /\ gz = Idle /\ sne = Idle /\ agg = Idle /\ teq = Idle

\* arr is an xarray DataArray: the reduction runs
WmeanCall ==
    /\ wm.pc = "args"
    /\ wm' = [pc |-> "done", arr |-> wm.arr, weights |-> wm.weights,
              out |-> wmean(wm.arr, wm.weights)]
    /\ UNCHANGED <<dat, ret, call, gz, sne, agg, teq>>

\* arr is handed over as anything else (its bare values): Exception
WmeanCallNotXarray ==
    /\ wm.pc = "args"
    /\ wm' = [pc |-> "raised", arr |-> wm.arr, weights |-> wm.weights]
    /\ UNCHANGED <<dat, ret, call, gz, sne, agg, teq>>

\* the cells of column c where arr is present, in order along dim
WmeanValid(c) ==
    SelectSeq([k \in 1..WmeanLen |-> k], LAMBDA k : ~IsNaN(wm.arr[c][k]))

\* C7: wmean excludes the cells where arr is missing from numerator and
\* denominator alike: at every position of the other axes the result is
\* (sum of arr*weights over the non-missing cells) / (sum of weights over the
\* same cells); where arr is missing all along dim it is not-a-number; with
\* unit weights and nothing missing it is the arithmetic mean.
Thm_C7_WmeanMasksBoth ==
    wm.pc = "done" =>
        \A c \in WmeanCols :
            LET valid == WmeanValid(c) IN
            /\ (\A n \in DOMAIN valid : ~IsNaN(wm.weights[c][valid[n]])) =>
                   Same(wm.out[c],
                        Div(Sum([n \in DOMAIN valid |->
                                    Mul(wm.arr[c][valid[n]], wm.weights[c][valid[n]])]),
                            Sum([n \in DOMAIN valid |-> wm.weights[c][valid[n]]])))
            /\ valid = <<>> => IsNaN(wm.out[c])
            /\ (Len(valid) = WmeanLen /\ \A k \in 1..WmeanLen : wm.weights[c][k] = Num(1)) =>
                   Same(wm.out[c], Div(Sum(wm.arr[c]), Num(WmeanLen)))

\* one column is missing throughout (result nan), the other mixes a missing
\* cell that carries a weight with a present one (result the present value)
Wit_C7_MissingCells ==
    /\ wm.pc = "done"
    /\ WmeanValid(1) = <<>>
    /\ IsNaN(wm.out[1])
    /\ WmeanValid(2) = <<1>>
    /\ \A k \in 1..WmeanLen : wm.weights[2][k] = Num(3)
    /\ wm.out[2] = wm.arr[2][1]

WmeanNext == WmeanCall \/ WmeanCallNotXarray

SpecWmean == WmeanInit /\ [][WmeanNext]_vars

----------------------------------------------------------------------------
(* Datasets.  A Dataset is [data |-> data_vars, coords |-> coordinates],   *)
(* both functions from names.  A 3-d field is [column -> sequence along    *)
(* z], a field reduced along z is [column -> value]; a column is a pair    *)
(* <<i, j>> of positions along x and y.                                    *)

None == [none |-> TRUE]

Put(f, name, v) == [n \in DOMAIN f \cup {name} |-> IF n = name THEN v ELSE f[n]]
Drop(f, name) == [n \in DOMAIN f \ {name} |-> f[n]]

Cols(d) == (DOMAIN d.coords["x"]) \X (DOMAIN d.coords["y"])
Levels(d) == DOMAIN d.coords["z"]

\* `name in dat.data_vars`
InDataVars(name, d) == name \in DOMAIN d.data
\* attribute access dat.<name> resolves data variables and coordinates
HasAttr(name, d) == name \in DOMAIN d.data \/ name \in DOMAIN d.coords
Attr(name, d) == IF name \in DOMAIN d.data THEN d.data[name] ELSE d.coords[name]

\* the fields argument: a list of names, or a single string
List(items) == [kind |-> "list", items |-> items]
Str(s) == [kind |-> "str", s |-> s]

\* `name in fields`: list membership, or the substring test on a string.
\* No derived-field name is a substring of another one, so on the field
\* vocabulary the substring test is equality.
Requested(name, fields) ==
    IF fields.kind = "str" THEN name = fields.s
    ELSE \E n \in DOMAIN fields.items : fields.items[n] = name

\* units of the simulation (pyathena Units): pressure to K cm^-3, and muH
pok == Num(173)
muH == Dec(14271, 4)
Twarm == Num(20000)

\* the cooling table's T1 -> T lookup (pyathena coolftn.get_temp): a
\* monotone piecewise-linear table, nan for nan
get_temp(T1) ==
    IF IsNaN(T1) \/ ~IsFinite(T1) THEN T1
    ELSE IF Less(T1, Num(10000)) THEN T1
    ELSE Add(Num(10000), Div(Sub(T1, Num(10000)), Num(2)))

\* the external vertical gravity of pygc.pot, an odd function of z that
\* weakens with R: -z / (1 + R^2)
gz_ext(R, z) == Div(Neg(z), Add(Num(1), Mul(R, R)))

\* scipy's _call_linear: at is where searchsorted puts x_new among x, hi
\* that place clipped to the table, lo the sample before
InterpFrom(x, y, x_new, at) ==
    LET hi == IF at < 2 THEN 2 ELSE at
        lo == hi - 1
    IN  Add(Mul(Div(Sub(y[hi], y[lo]), Sub(x[hi], x[lo])), Sub(x_new, x[lo])), y[lo])

\* scipy's linear interp1d of the samples y at x, evaluated at 0 (xarray's
\* interp(z=0)): the bracketing pair is found by searchsorted, clipped to
\* the table; nan outside the range of x
Interp0(x, y) ==
    LET n == Len(x)
        x_new == Zero(1)
    IN  IF Less(x_new, x[1]) \/ Less(x[n], x_new) THEN NaN
        ELSE InterpFrom(x, y, x_new,
                        CHOOSE k \in 1..n :
                            ~Less(x[k], x_new) /\ \A m \in 1..(k - 1) : Less(x[m], x_new))

\* the mutant: the first level keeps the nan that shift(z=1) left there
gz_sg_column_noleftfill(phi, dz) ==
    LET n == Len(phi)
        phir0 == [k \in 1..n |-> IF k < n THEN phi[k + 1] ELSE NaN]
        phil0 == [k \in 1..n |-> IF k > 1 THEN phi[k - 1] ELSE NaN]
        phir == [phir0 EXCEPT ![n] =
                    Add(Sub(Mul(Num(3), phir0[n - 1]), Mul(Num(3), phir0[n - 2])), phir0[n - 3])]
    IN  [k \in 1..n |-> Div(Sub(phil0[k], phir[k]), dz)]

\* gz_sg of one column: shifted copies of the potential, the vacated
\* boundary level of each filled by 3 f(n-1) - 3 f(n-2) + f(n-3)
gz_sg_column(phi, dz) ==
    LET n == Len(phi)
        phir0 == [k \in 1..n |-> IF k < n THEN phi[k + 1] ELSE NaN]
        phil0 == [k \in 1..n |-> IF k > 1 THEN phi[k - 1] ELSE NaN]
        phir == [phir0 EXCEPT ![n] =
                    Add(Sub(Mul(Num(3), phir0[n - 1]), Mul(Num(3), phir0[n - 2])), phir0[n - 3])]
        phil == [phil0 EXCEPT ![1] =
                    Add(Sub(Mul(Num(3), phil0[2]), Mul(Num(3), phil0[3])), phil0[4])]
    IN  [k \in 1..n |-> Div(Sub(phil[k], phir[k]), dz)]

\* grid spacing along z, read off the coordinate
Dz(d) == Sub(d.coords["z"][2], d.coords["z"][1])

HValue(d) ==
    [c \in Cols(d) |->
        LET rho == d.data["density"][c]
            zsq == [k \in Levels(d) |->
                      IF IsNaN(rho[k]) THEN NaN
                      ELSE Mul(d.coords["z"][k], d.coords["z"][k])]
        IN  Sqrt(wmean_col(zsq, rho))]

SurfValue(d) ==
    [c \in Cols(d) |-> NanSum([k \in Levels(d) |-> Mul(d.data["density"][c][k], Dz(d))])]

PturbValue(d) ==
    [c \in Cols(d) |-> [k \in Levels(d) |->
        Mul(d.data["density"][c][k],
            Mul(d.data["velocity3"][c][k], d.data["velocity3"][c][k]))]]

SzValue(d) ==
    [c \in Cols(d) |->
        Sqrt(Interp0(d.coords["z"],
                     [k \in Levels(d) |->
                        Div(Attr("Pturb", d)[c][k], d.data["density"][c][k])]))]

RValue(d) ==
    [c \in Cols(d) |->
        Sqrt(Add(Mul(d.coords["x"][c[1]], d.coords["x"][c[1]]),
                 Mul(d.coords["y"][c[2]], d.coords["y"][c[2]])))]

PgravValue(d) ==
    [c \in Cols(d) |->
        Neg(Mul(NanSum([k \in Levels(d) |->
                    IF Less(Zero(1), d.coords["z"][k])
                    THEN Mul(d.data["density"][c][k],
                             Add(Attr("gz_sg", d)[c][k],
                                 gz_ext(Attr("R", d)[c], d.coords["z"][k])))
                    ELSE NaN]),
                Dz(d)))]

TValue(d) ==
    [c \in Cols(d) |-> [k \in Levels(d) |->
        get_temp(Mul(Div(Mul(d.data["pressure"][c][k], pok),
                         d.data["density"][c][k]),
                     muH))]]

GzValue(d) ==
    [c \in Cols(d) |-> gz_sg_column(d.data["gravitational_potential"][c], Dz(d))]

----------------------------------------------------------------------------
(* add_derived_fields(dat, fields, in_place).  A call runs on a context    *)
(* [dat, tmp, log, err]: the dataset passed in, the copy made of it (None  *)
(* when in_place), the derived fields computed so far in order, and the    *)
(* exception raised ("none" while there is none).                          *)

FieldNames == {"H", "surf", "sz", "R", "Pturb", "Pgrav", "T", "gz_sg"}

\* dat[name] = v, or tmp[name] = v.  The assignment is Dataset.update: v,
\* computed from dat's variables, carries dat's coordinates, and those the
\* target lacks are merged into it (the others are left as they are).  dat
\* has them all; tmp lacks the R a nested call has put on dat since the
\* copy was made
SetVar(ctx, in_place, name, v) ==
    IF in_place
    THEN [ctx EXCEPT !.dat.data = Put(@, name, v), !.log = Append(@, name)]
    ELSE [ctx EXCEPT !.tmp.data = Put(@, name, v),
                     !.tmp.coords =
                         [n \in (DOMAIN @) \cup (DOMAIN ctx.dat.coords) |->
                             IF n \in DOMAIN @ THEN @[n] ELSE ctx.dat.coords[n]],
                     !.log = Append(@, name)]

\* dat.coords[name] = v, or tmp.coords[name] = v
SetCoord(ctx, in_place, name, v) ==
    IF in_place
    THEN [ctx EXCEPT !.dat.coords = Put(@, name, v), !.log = Append(@, name)]
    ELSE [ctx EXCEPT !.tmp.coords = Put(@, name, v), !.log = Append(@, name)]

RECURSIVE add_derived_fields(_, _, _)

\* the nested call add_derived_fields(dat, fields=name, in_place=True)
Nested(ctx, name) ==
    LET r == add_derived_fields(ctx.dat, Str(name), TRUE)
    IN  [ctx EXCEPT !.dat = r.dat, !.log = @ \o r.log, !.err = r.err]

BranchH(ctx, fields, in_place) ==
    IF ctx.err # "none" \/ ~Requested("H", fields) THEN ctx
    ELSE SetVar(ctx, in_place, "H", HValue(ctx.dat))

\* the mutant: a surf already there is added to instead of replaced
BranchSurf_accumulate(ctx, fields, in_place) ==
    IF ctx.err # "none" \/ ~Requested("surf", fields) THEN ctx
    ELSE LET target == IF in_place THEN ctx.dat ELSE ctx.tmp
             new == SurfValue(ctx.dat)
         IN  SetVar(ctx, in_place, "surf",
                    IF InDataVars("surf", target)
                    THEN [c \in DOMAIN new |-> Add(target.data["surf"][c], new[c])]
                    ELSE new)

BranchSurf(ctx, fields, in_place) ==
    IF ctx.err # "none" \/ ~Requested("surf", fields) THEN ctx
    ELSE SetVar(ctx, in_place, "surf", SurfValue(ctx.dat))

\* the prerequisite Pturb is computed when gz_sg is not a data variable
BranchSz(ctx, fields, in_place) ==
    IF ctx.err # "none" \/ ~Requested("sz", fields) THEN ctx
    ELSE LET c1 == IF ~InDataVars("gz_sg", ctx.dat) THEN Nested(ctx, "Pturb") ELSE ctx
         IN  IF c1.err # "none" THEN c1
             ELSE IF ~HasAttr("Pturb", c1.dat) THEN [c1 EXCEPT !.err = "AttributeError"]
             ELSE SetVar(c1, in_place, "sz", SzValue(c1.dat))

BranchR(ctx, fields, in_place) ==
    IF ctx.err # "none" \/ ~Requested("R", fields) THEN ctx
    ELSE SetCoord(ctx, in_place, "R", RValue(ctx.dat))

BranchPturb(ctx, fields, in_place) ==
    IF ctx.err # "none" \/ ~Requested("Pturb", fields) THEN ctx
    ELSE SetVar(ctx, in_place, "Pturb", PturbValue(ctx.dat))

\* R is looked for among the data variables, where a coordinate never is
BranchPgrav(ctx, fields, in_place) ==
    IF ctx.err # "none" \/ ~Requested("Pgrav", fields) THEN ctx
    ELSE LET c1 == IF ~InDataVars("gz_sg", ctx.dat) THEN Nested(ctx, "gz_sg") ELSE ctx
             c2 == IF c1.err = "none" /\ ~InDataVars("R", c1.dat) THEN Nested(c1, "R") ELSE c1
         IN  IF c2.err # "none" THEN c2
             ELSE IF ~HasAttr("gz_sg", c2.dat) \/ ~HasAttr("R", c2.dat)
                  THEN [c2 EXCEPT !.err = "AttributeError"]
             ELSE SetVar(c2, in_place, "Pgrav", PgravValue(c2.dat))

BranchT(ctx, fields, in_place) ==
    IF ctx.err # "none" \/ ~Requested("T", fields) THEN ctx
    ELSE SetVar(ctx, in_place, "T", TValue(ctx.dat))

BranchGz(ctx, fields, in_place) ==
    IF ctx.err # "none" \/ ~Requested("gz_sg", fields) THEN ctx
    ELSE SetVar(ctx, in_place, "gz_sg", GzValue(ctx.dat))

\* the whole call; the caller receives tmp when not in_place and no
\* exception was raised, and nothing otherwise
add_derived_fields(d, fields, in_place) ==
    LET c0 == [dat |-> d, tmp |-> IF in_place THEN None ELSE d,
               log |-> <<>>, err |-> "none"]
        c1 == BranchH(c0, fields, in_place)
        c2 == BranchSurf(c1, fields, in_place)
        c3 == BranchSz(c2, fields, in_place)
        c4 == BranchR(c3, fields, in_place)
        c5 == BranchPturb(c4, fields, in_place)
        c6 == BranchPgrav(c5, fields, in_place)
        c7 == BranchT(c6, fields, in_place)
    IN  BranchGz(c7, fields, in_place)

Returned(r) == IF r.err = "none" THEN r.tmp ELSE None

----------------------------------------------------------------------------
(* The snapshots a loader hands over: base fields on a 2 x 2 x 4 grid of   *)
(* cell centres, the mid-plane z = 0 a cell face.                          *)

GridX == <<Num(1), Num(3)>>
GridY == <<Num(-1), Num(1)>>
GridZ == <<Num(-3), Num(-1), Num(1), Num(3)>>

\* base fields on the grid x, y, z for snapshot number id; snapshot 2 is
\* masked (density missing) at the top and bottom level of the columns at
\* the first x; pressure 1000 marks the hot cells; velocities and
\* potential in tenths
DatasetOn(id, x, y, z) ==
    LET C == (DOMAIN x) \X (DOMAIN y)
        L == DOMAIN z
    IN  [data |->
            [density |-> [c \in C |-> [k \in L |->
                            IF id = 2 /\ c[1] = 1 /\ k \in {1, Len(z)} THEN NaN
                            ELSE Num(1 + ((c[1] + c[2] + k + id) % 3))]],
             velocity1 |-> [c \in C |-> [k \in L |-> Num(c[1] - c[2])]],
             velocity2 |-> [c \in C |-> [k \in L |-> Num(k - id)]],
             velocity3 |-> [c \in C |-> [k \in L |->
                            Dec(10 * ((c[1] + 2 * c[2] + 3 * k + id) % 4) - 7, 1)]],
             pressure |-> [c \in C |-> [k \in L |->
                            IF (c[1] + k + id) % 3 = 0 THEN Num(1000) ELSE Num(1 + k)]],
             gravitational_potential |-> [c \in C |-> [k \in L |->
                            Add(Mul(Add(z[k], Num(id * c[1])), z[k]), Dec(c[2], 1))]]],
         coords |-> [x |-> x, y |-> y, z |-> z]]

\* snapshot number id as the loader hands it over
BaseDataset(id) == DatasetOn(id, GridX, GridY, GridZ)

\* bounds of the engine's runs
NumDatasets == 2
MaxCalls == 2


\* the field lists a caller passes: every single field, every field named
\* twice, and the combinations the repository and its docstring use
Requests ==
    {List(<<f>>) : f \in FieldNames}
    \cup {List(<<f, f>>) : f \in FieldNames}
    \cup {List(<<"H", "surf", "T">>), List(<<"R", "Pturb", "Pgrav">>),
          List(<<"Pturb", "sz">>), List(<<"gz_sg", "Pgrav">>),
          List(<<"sz", "Pgrav">>)}

Init ==
    /\ dat \in {BaseDataset(id) : id \in 1..NumDatasets}
    /\ ret = None
    /\ call = [pc |-> "none", n |-> 0]
    /\ wm = Idle /\ gz = Idle /\ sne = Idle /\ agg = Idle /\ teq = Idle

\* the record kept of a call
CallRecord(fields, in_place, r) ==
    [pc |-> "called", n |-> call.n + 1, fields |-> fields, in_place |-> in_place,
     pre |-> dat, log |-> r.log, err |-> r.err]

\* add_derived_fields(dat, fields, in_place=True)
AddInPlace(fields) ==
    /\ call.n < MaxCalls
    /\ \E r \in {add_derived_fields(dat, fields, TRUE)} :
           /\ dat' = r.dat
           /\ ret' = None
           /\ call' = CallRecord(fields, TRUE, r)
    /\ UNCHANGED <<wm, gz, sne, agg, teq>>

\* new = add_derived_fields(dat, fields, in_place=False)
AddCopy(fields) ==
    /\ call.n < MaxCalls
    /\ \E r \in {add_derived_fields(dat, fields, FALSE)} :
           /\ dat' = r.dat
           /\ ret' = Returned(r)
           /\ call' = CallRecord(fields, FALSE, r)
    /\ UNCHANGED <<wm, gz, sne, agg, teq>>

\* the caller goes on with the returned dataset: dat = new
Rebind ==
    /\ ret # None
    /\ dat' = ret
    /\ ret' = None
    /\ call' = [pc |-> "rebound", n |-> call.n]
    /\ UNCHANGED <<wm, gz, sne, agg, teq>>

Next ==
    \/ \E fields \in Requests : AddInPlace(fields)
    \/ \E fields \in Requests : AddCopy(fields)
    \/ Rebind

Spec == Init /\ [][Next]_vars

----------------------------------------------------------------------------
(* Properties of the engine.                                               *)

Called == call.pc = "called"

\* what the caller holds after the call: the mutated dataset, or the copy
Outcome(r, in_place) ==
    [ds |-> IF in_place THEN r.dat ELSE Returned(r), err |-> r.err]
LastOutcome == [ds |-> IF call.in_place THEN dat ELSE ret, err |-> call.err]

\* C1: a call with in_place=False leaves the dataset it was given as it
\* was: the same data fields and coordinates with the same values.
CE_C1_OriginalUntouched ==
    (Called /\ ~call.in_place) => dat = call.pre

\* C2: a requested sz or Pgrav never fails for lack of a prerequisite: the
\* prerequisite is there, or computed first, whatever earlier calls left.
CE_C2_PrerequisiteOnDemand ==
    (Called /\ (Requested("sz", call.fields) \/ Requested("Pgrav", call.fields)))
        => call.err = "none"

\* the computations a call triggered
Computed(name) == \E n \in DOMAIN call.log : call.log[n] = name

\* C3: a prerequisite already in the dataset is not computed again: Pturb
\* for sz, gz_sg and the coordinate R for Pgrav.
CE_C3_PresentNotRecomputed ==
    Called =>
        /\ (Requested("sz", call.fields) /\ ~Requested("Pturb", call.fields)
                /\ HasAttr("Pturb", call.pre)) => ~Computed("Pturb")
        /\ (Requested("Pgrav", call.fields) /\ ~Requested("gz_sg", call.fields)
                /\ HasAttr("gz_sg", call.pre)) => ~Computed("gz_sg")
        /\ (Requested("Pgrav", call.fields) /\ ~Requested("R", call.fields)
                /\ HasAttr("R", call.pre)) => ~Computed("R")

\* C4: naming a field twice in one call gives what naming it once gives,
\* and requesting a field again from the dataset that already holds it gives
\* that dataset back (same fields, same values).
Thm_C4_Idempotent ==
    Called =>
        \A f \in FieldNames :
            /\ call.fields = List(<<f, f>>) =>
                   LastOutcome = Outcome(add_derived_fields(call.pre, List(<<f>>), call.in_place),
                                         call.in_place)
            /\ (call.fields = List(<<f>>) /\ call.err = "none") =>
                   Outcome(add_derived_fields(LastOutcome.ds, List(<<f>>), call.in_place),
                           call.in_place) = LastOutcome

\* Pgrav named twice, in a dataset that held Pgrav already
Wit_C4_PgravTwice ==
    /\ Called
    /\ call.fields = List(<<"Pgrav", "Pgrav">>)
    /\ InDataVars("Pgrav", call.pre)
    /\ call.err = "none"
    /\ InDataVars("Pgrav", LastOutcome.ds)
    /\ Computed("Pgrav")


----------------------------------------------------------------------------
(* gz_sg of a linear potential Phi(z) = a z + b on a uniform grid.         *)

\* bounds of the linear profiles
MaxCoef == 2
MaxNz == 5

\* a 2 x 2 x n dataset whose potential is a z + b in every column, sampled
\* in doubles on the levels z0, z0 + dz, ...
LinearOn(a, b, x, y, z) ==
    LET C == (DOMAIN x) \X (DOMAIN y)
    IN  [data |-> [name \in {"density", "velocity1", "velocity2", "velocity3",
                             "pressure", "gravitational_potential"} |->
                      IF name = "gravitational_potential"
                      THEN [c \in C |-> [k \in DOMAIN z |-> Add(Mul(a, z[k]), b)]]
                      ELSE [c \in C |-> [k \in DOMAIN z |-> Num(1)]]],
         coords |-> [x |-> x, y |-> y, z |-> z]]

LinearDataset(a, b, dz, z0, n) ==
    LinearOn(a, b, GridX, GridY, [k \in 1..n |-> Add(z0, Mul(Num(k - 1), dz))])

\* derived_fields.add_derived_fields(s, dat, ['gz_sg']): the same stencil,
\* in place, divided by the domain's spacing s.domain['dx'][2]
legacy_gz_sg(d, domain_dx) ==
    [d EXCEPT !.data = Put(@, "gz_sg",
        [c \in Cols(d) |-> gz_sg_column(d.data["gravitational_potential"][c], domain_dx[3])])]

\* slopes in units and in tenths, offsets and spacings that are or are not
\* binary fractions
GzInit ==
    /\ gz \in [pc : {"args"},
               a : {Div(Num(i), Num(d)) : i \in (-MaxCoef)..MaxCoef, d \in {1, 10}},
               b : {Num(-1), Num(0), Dec(7, 1)},
               dz : {Num(1), Num(2), Dec(1, 1)},
               z0 : {Num(-3), Num(0)},
               n : 4..MaxNz]
    /\ dat = Idle /\ ret = Idle /\ call = Idle
    /\ wm = Idle /\ sne = Idle /\ agg = Idle /\ teq = Idle

\* what is kept of a computation: the sampled potential and the grid of a
\* column, the spacing the difference was divided by, the field
GzRecord(by, d, spacing, out) ==
    [pc |-> "done", by |-> by, a |-> gz.a, b |-> gz.b, dz |-> gz.dz, z0 |-> gz.z0,
     n |-> gz.n, z |-> d.coords["z"], Phi |-> d.data["gravitational_potential"][<<1, 1>>],
     spacing |-> spacing, out |-> out]

\* add_derived_fields(dat, ['gz_sg']) of pygc.util
GzCompute ==
    /\ gz.pc = "args"
    /\ \E d \in {LinearDataset(gz.a, gz.b, gz.dz, gz.z0, gz.n)} :
           gz' = GzRecord("pygc.util", d, Dz(d),
                          Returned(add_derived_fields(d, List(<<"gz_sg">>), FALSE)).data["gz_sg"])
    /\ UNCHANGED <<dat, ret, call, wm, sne, agg, teq>>

\* add_derived_fields(s, dat, ['gz_sg']) of derived_fields.py
GzComputeLegacy ==
    /\ gz.pc = "args"
    /\ \E d \in {LinearDataset(gz.a, gz.b, gz.dz, gz.z0, gz.n)} :
       \E dx \in {<<Sub(GridX[2], GridX[1]), Sub(GridY[2], GridY[1]), gz.dz>>} :
           gz' = GzRecord("derived_fields", d, dx[3], legacy_gz_sg(d, dx).data["gz_sg"])
    /\ UNCHANGED <<dat, ret, call, wm, sne, agg, teq>>

GzNext == GzCompute \/ GzComputeLegacy

SpecGz == GzInit /\ [][GzNext]_vars

GzCols == (DOMAIN GridX) \X (DOMAIN GridY)

\* C5: on the linear potential a z + b, gz_sg is -a at every interior cell
\* (every cell but the first and the last along z).
CE_C5_InteriorIsMinusA ==
    gz.pc = "done" =>
        \A c \in GzCols : \A k \in 2..(gz.n - 1) : Eq(gz.out[c][k], Neg(gz.a))

\* C6, as stated: on the linear potential, gz_sg at the first and at the
\* last cell along z, where the missing neighbour is extrapolated, is
\* exactly the constant of the interior cells, and is a number.
CE_C6_BoundaryExactlyInterior ==
    gz.pc = "done" =>
        \A c \in GzCols : \A k \in 2..(gz.n - 1) :
            /\ ~IsNaN(gz.out[c][1]) /\ ~IsNaN(gz.out[c][gz.n])
            /\ Eq(gz.out[c][1], gz.out[c][k])
            /\ Eq(gz.out[c][gz.n], gz.out[c][k])

\* an integer as a double
IsInteger(v) == IsFinite(v) /\ v.exp >= 0

\* the sampled potential is integer-valued, below 2^50 in magnitude, and
\* rises by one step from cell to cell: every difference and the
\* extrapolation are exact
GzExactSamples ==
    /\ \A k \in 1..gz.n :
          IsInteger(gz.Phi[k]) /\ Less(FAbs(gz.Phi[k]), Fin(1, 50, <<1>>))
    /\ \A k \in 2..(gz.n - 1) :
          Eq(Sub(gz.Phi[k], gz.Phi[k - 1]), Sub(gz.Phi[k + 1], gz.Phi[k]))

\* the largest |a z| + |b| on the grid
RECURSIVE GzLargest(_)
GzLargest(k) ==
    LET here == Add(FAbs(Mul(gz.a, gz.z[k])), FAbs(gz.b))
    IN  IF k = 1 THEN here
        ELSE LET rest == GzLargest(k - 1) IN IF Less(rest, here) THEN here ELSE rest

\* the rounding allowance 2^-45 M / dz
GzAllowance == Div(Mul(Fin(1, -45, <<1>>), GzLargest(gz.n)), gz.spacing)

GzClose(v, w) == ~Less(GzAllowance, FAbs(Sub(v, w)))

\* C6, amended: on the linear potential sampled in doubles, gz_sg at the
\* first and at the last cell along z is a number and agrees with gz_sg at
\* every interior cell within the rounding allowance 2^-45 M / dz (M the
\* largest |a z| + |b|, dz the spacing divided by); where the sampled values
\* are integers below 2^50 in equal steps the boundary cells equal the
\* interior cells exactly.
Thm_C6_BoundaryEqualsInterior ==
    gz.pc = "done" =>
        \A c \in GzCols : \A k \in 2..(gz.n - 1) :
            /\ ~IsNaN(gz.out[c][1]) /\ ~IsNaN(gz.out[c][gz.n])
            /\ GzClose(gz.out[c][1], gz.out[c][k])
            /\ GzClose(gz.out[c][gz.n], gz.out[c][k])
            /\ GzExactSamples =>
                  /\ Eq(gz.out[c][1], gz.out[c][k])
                  /\ Eq(gz.out[c][gz.n], gz.out[c][k])

\* a sloping potential in tenths on the longest grid: both boundary cells
\* are numbers within the allowance of the interior's non-zero value, and
\* the first differs from it in the last bits
Wit_C6_SlopingProfile ==
    /\ gz.pc = "done" /\ gz.by = "pygc.util"
    /\ gz.n = MaxNz /\ ~GzExactSamples
    /\ ~Eq(gz.out[<<1, 1>>][1], gz.out[<<1, 1>>][2])
    /\ GzClose(gz.out[<<1, 1>>][1], gz.out[<<1, 1>>][2])
    /\ GzClose(gz.out[<<1, 1>>][gz.n], gz.out[<<1, 1>>][2])
    /\ ~Eq(gz.out[<<1, 1>>][2], Num(0))

----------------------------------------------------------------------------
(* count_SNe(s, ts, te, ncrit).                                            *)

\* bound of the event log
MaxEvents == 3

\* s.domain: left and right edges, spacing, cell counts along x and y
SneDomain ==
    [le |-> <<Dec(-2, 1), Num(0)>>, re |-> <<Dec(2, 1), Num(2)>>,
     dx |-> <<Dec(1, 1), Num(1)>>, Nx |-> <<4, 2>>]
\* the query: time window and density threshold
SneQuery == [ts |-> Num(1), te |-> Num(3), ncrit |-> Num(5)]

\* events of s.read_sn(), all inside the domain: at (-0.15, 1.5), on the
\* cell boundary (0.1, 0.5) and on the left edges (-0.2, 0)
SneEvents ==
    {[time |-> t, x1sn |-> p[1], x2sn |-> p[2], navg |-> v] :
        t \in {Num(1), Num(2), Num(3)}, v \in {Num(5), Num(6)},
        p \in {<<Dec(-15, 2), Dec(15, 1)>>, <<Dec(1, 1), Dec(5, 1)>>,
               <<Dec(-2, 1), Num(0)>>}}

RECURSIVE SeqsUpTo(_, _)
SeqsUpTo(S, n) ==
    IF n = 0 THEN {<<>>}
    ELSE LET shorter == SeqsUpTo(S, n - 1)
         IN  shorter \cup {Append(q, e) : q \in {t \in shorter : Len(t) = n - 1}, e \in S}

\* the mutant: the window is closed at its start
sn_filter_closed(e, ts, te, ncrit) ==
    ~Less(e.time, ts) /\ Less(e.time, te) /\ Less(ncrit, e.navg)

\* (sn.time > ts) & (sn.time < te) & (sn.navg > ncrit)
sn_filter(e, ts, te, ncrit) ==
    Less(ts, e.time) /\ Less(e.time, te) /\ Less(ncrit, e.navg)

\* np.floor((pos - le) / dx).astype('int32')
sn_index(pos, le, dx) == ToInt(Floor(Div(Sub(pos, le), dx)))

\* the rows that pass the filter, each with its cell: i, j the floors of the
\* offsets from the left edge over the spacing; grouped by (j, i) and
\* counted; the grid starts all nan and receives the counts of the groups
count_SNe(dom, log, ts, te, ncrit) ==
    LET sn == SelectSeq(log, LAMBDA e : sn_filter(e, ts, te, ncrit))
        ji == [n \in DOMAIN sn |->
                  <<sn_index(sn[n].x2sn, dom.le[2], dom.dx[2]),
                    sn_index(sn[n].x1sn, dom.le[1], dom.dx[1])>>]
        groups == {ji[n] : n \in DOMAIN sn}
        size(g) == Cardinality({n \in DOMAIN sn : ji[n] = g})
    IN  [jj \in 0..(dom.Nx[2] - 1) |-> [ii \in 0..(dom.Nx[1] - 1) |->
            IF <<jj, ii>> \in groups THEN Num(size(<<jj, ii>>)) ELSE NaN]]

SneInit ==
    /\ sne \in [pc : {"args"}, log : SeqsUpTo(SneEvents, MaxEvents)]
    /\ dat = Idle /\ ret = Idle /\ call = Idle
    /\ wm = Idle /\ gz = Idle /\ agg = Idle /\ teq = Idle

SneCount ==
    /\ sne.pc = "args"
    /\ sne' = [pc |-> "done", log |-> sne.log,
               out |-> count_SNe(SneDomain, sne.log, SneQuery.ts, SneQuery.te, SneQuery.ncrit)]
    /\ UNCHANGED <<dat, ret, call, wm, gz, agg, teq>>

SpecSNe == SneInit /\ [][SneCount]_vars

\* the events of the log strictly inside the window and denser than ncrit
SnePassing ==
    {n \in DOMAIN sne.log :
        LET e == sne.log[n] IN
        Less(SneQuery.ts, e.time) /\ Less(e.time, SneQuery.te) /\ Less(SneQuery.ncrit, e.navg)}

\* those of them that belong to cell (i, j): the floor of the offset from
\* the left edge over the spacing is i along x and j along y
SneHits(i, j) ==
    {n \in SnePassing :
        LET e == sne.log[n] IN
        /\ Floor(Div(Sub(e.x1sn, SneDomain.le[1]), SneDomain.dx[1])) = Num(i)
        /\ Floor(Div(Sub(e.x2sn, SneDomain.le[2]), SneDomain.dx[2])) = Num(j)}

\* C8: each cell (i, j) of the result holds the number of events strictly
\* inside (ts, te), denser than ncrit, whose position falls in that cell,
\* when there is one at least, and not-a-number when there is none; the
\* cells that hold a number add up to the number of events that pass.
Thm_C8_CountPerCell ==
    sne.pc = "done" =>
        /\ \A i \in 0..(SneDomain.Nx[1] - 1) : \A j \in 0..(SneDomain.Nx[2] - 1) :
              sne.out[j][i] = IF Cardinality(SneHits(i, j)) >= 1
                              THEN Num(Cardinality(SneHits(i, j))) ELSE NaN
        /\ NanSum([n \in 1..(SneDomain.Nx[1] * SneDomain.Nx[2]) |->
                      sne.out[(n - 1) \div SneDomain.Nx[1]][(n - 1) % SneDomain.Nx[1]]])
              = Num(Cardinality(SnePassing))

\* two events pass and fall in one cell, a third sits on the window's
\* start: that cell counts 2, every other cell is nan
Wit_C8_TwoInOneCell ==
    /\ sne.pc = "done"
    /\ Len(sne.log) = 3
    /\ \E n \in DOMAIN sne.log :
          sne.log[n].time = SneQuery.ts /\ Less(SneQuery.ncrit, sne.log[n].navg)
    /\ sne.out[1][0] = Num(2)
    /\ \A i \in 0..(SneDomain.Nx[1] - 1) : \A j \in 0..(SneDomain.Nx[2] - 1) :
          <<j, i>> # <<1, 0>> => IsNaN(sne.out[j][i])

----------------------------------------------------------------------------
(* sum_dataset(s, nums, twophase).                                         *)

\* bound of the list of snapshot numbers
MaxSnaps == 3

\* Dataset.where(cond, other=0): every data variable keeps its value where
\* cond holds and is 0 elsewhere; coordinates are left alone
DatasetWhere(d, cond) ==
    [d EXCEPT !.data = [name \in DOMAIN d.data |->
        [c \in Cols(d) |-> [k \in Levels(d) |->
            IF cond[c][k] THEN d.data[name][c][k] ELSE Zero(1)]]]]

\* dat.T < Twarm: False where T is nan
BelowTwarm(d) ==
    [c \in Cols(d) |-> [k \in Levels(d) |-> Less(d.data["T"][c][k], Twarm)]]

\* dat.where(dat.T < Twarm, other=0)
WhereCold(withT) == DatasetWhere(withT, BelowTwarm(withT))

\* dat.drop('T')
DropT(kept) == [kept EXCEPT !.data = Drop(@, "T")]

\* dat['gravitational_potential'] = Phi
SetPhi(dropped, Phi) == [dropped EXCEPT !.data = Put(@, "gravitational_potential", Phi)]

\* the mutant: the potential saved before the filter is not put back
twophase_filter_norestore(d) ==
    DropT(WhereCold(add_derived_fields(d, Str("T"), TRUE).dat))

\* the twophase branch: Phi saved, T added in place, every variable zeroed
\* where T is not below Twarm, T dropped, Phi put back
twophase_filter(d) ==
    SetPhi(DropT(WhereCold(add_derived_fields(d, Str("T"), TRUE).dat)),
           d.data["gravitational_potential"])

\* one snapshot made ready: loaded, filtered when twophase, R, Pturb and
\* Pgrav added in place
prepare_loaded(loaded, twophase) ==
    add_derived_fields(IF twophase THEN twophase_filter(loaded) ELSE loaded,
                       List(<<"R", "Pturb", "Pgrav">>), TRUE).dat

prepare_snapshot(num, twophase) == prepare_loaded(BaseDataset(num), twophase)

\* dat += tmp: every data variable added elementwise; the fields reduced
\* along z are [column -> value], the others [column -> sequence]
dataset_iadd(d, tmp) ==
    [d EXCEPT !.data = [name \in DOMAIN d.data |->
        IF name \in {"H", "surf", "sz", "Pgrav"}
        THEN [c \in Cols(d) |-> Add(d.data[name][c], tmp.data[name][c])]
        ELSE [c \in Cols(d) |-> [k \in Levels(d) |->
                 Add(d.data[name][c][k], tmp.data[name][c][k])]]]]

AggInit ==
    /\ agg \in [pc : {"start"}, nums : SeqsUpTo(1..NumDatasets, MaxSnaps),
                twophase : BOOLEAN, at : {0}, dat : {None}]
    /\ dat = Idle /\ ret = Idle /\ call = Idle
    /\ wm = Idle /\ gz = Idle /\ sne = Idle /\ teq = Idle

\* nums[0] of an empty list: IndexError
SumEmpty ==
    /\ agg.pc = "start" /\ agg.nums = <<>>
    /\ agg' = [agg EXCEPT !.pc = "raised"]
    /\ UNCHANGED <<dat, ret, call, wm, gz, sne, teq>>

\* "load a first vtk": dat is the first snapshot made ready
SumFirst ==
    /\ agg.pc = "start" /\ agg.nums # <<>>
    /\ agg' = [agg EXCEPT !.pc = "loop", !.at = 1,
                          !.dat = prepare_snapshot(agg.nums[1], agg.twophase)]
    /\ UNCHANGED <<dat, ret, call, wm, gz, sne, teq>>

\* one turn of "for num in nums[1:]": tmp made ready, dat += tmp
SumStep ==
    /\ agg.pc = "loop" /\ agg.at < Len(agg.nums)
    /\ agg' = [agg EXCEPT !.at = agg.at + 1,
                          !.dat = dataset_iadd(agg.dat,
                                      prepare_snapshot(agg.nums[agg.at + 1], agg.twophase))]
    /\ UNCHANGED <<dat, ret, call, wm, gz, sne, teq>>

\* return dat
SumReturn ==
    /\ agg.pc = "loop" /\ agg.at = Len(agg.nums)
    /\ agg' = [agg EXCEPT !.pc = "done"]
    /\ UNCHANGED <<dat, ret, call, wm, gz, sne, teq>>

AggNext == SumEmpty \/ SumFirst \/ SumStep \/ SumReturn

SpecSum == AggInit /\ [][AggNext]_vars

\* the temperature of a loaded snapshot's cell
LoadedT(num) == TValue(BaseDataset(num))
Cold(num, c, k) == Less(LoadedT(num)[c][k], Twarm)

\* a loaded field after the filter: its value where T < Twarm, 0 elsewhere
Filtered(num, name, c, k) ==
    IF Cold(num, c, k) THEN BaseDataset(num).data[name][c][k] ELSE Zero(1)

\* Pgrav of one snapshot from the filtered density and the gradient of the
\* potential as loaded: minus the sum over the levels above the mid-plane,
\* in order, times the spacing
ExpectedPgrav(num, c) ==
    LET base == BaseDataset(num)
        g == GzValue(base)[c]
        z == base.coords["z"]
        R == Sqrt(Add(Mul(base.coords["x"][c[1]], base.coords["x"][c[1]]),
                      Mul(base.coords["y"][c[2]], base.coords["y"][c[2]])))
        above == SelectSeq([k \in DOMAIN z |-> k], LAMBDA k : Less(Zero(1), z[k]))
    IN  Neg(Mul(Sum([n \in DOMAIN above |->
                        Mul(Filtered(num, "density", c, above[n]),
                            Add(g[above[n]], gz_ext(R, z[above[n]])))]),
                Sub(z[2], z[1])))

\* the sum over the snapshots of nums, taken in order
SumOver(nums, term(_)) == Sum([n \in DOMAIN nums |-> term(nums[n])])

AggCols == (DOMAIN GridX) \X (DOMAIN GridY)

\* C9: with twophase the result is the elementwise sum, over the snapshots
\* of nums and not divided by their number, of each snapshot filtered:
\* density, velocity and pressure 0 where the temperature is not below
\* Twarm and untouched elsewhere, the potential as loaded in every cell, and
\* Pgrav derived from that potential.
Thm_C9_TwoPhaseSum ==
    (agg.pc = "done" /\ agg.twophase) =>
        \A c \in AggCols :
            /\ \A k \in DOMAIN GridZ :
                  /\ \A name \in {"density", "velocity1", "velocity2", "velocity3", "pressure"} :
                        Same(agg.dat.data[name][c][k],
                             SumOver(agg.nums, LAMBDA num : Filtered(num, name, c, k)))
                  /\ Same(agg.dat.data["gravitational_potential"][c][k],
                          SumOver(agg.nums,
                              LAMBDA num : BaseDataset(num).data["gravitational_potential"][c][k]))
            /\ Same(agg.dat.data["Pgrav"][c],
                    SumOver(agg.nums, LAMBDA num : ExpectedPgrav(num, c)))

\* two snapshots summed, the first with a cell that is not cold, holds a
\* non-zero potential and a non-zero density
Wit_C9_HotCellSummed ==
    /\ agg.pc = "done" /\ agg.twophase
    /\ agg.nums = <<1, 2>>
    /\ \E c \in AggCols : \E k \in DOMAIN GridZ :
          /\ ~Cold(1, c, k) /\ Cold(2, c, k)
          /\ ~Eq(BaseDataset(1).data["gravitational_potential"][c][k], Num(0))
          /\ ~Eq(BaseDataset(1).data["density"][c][k], Num(0))
          /\ agg.dat.data["density"][c][k] = BaseDataset(2).data["density"][c][k]
          /\ agg.dat.data["gravitational_potential"][c][k]
                = Add(BaseDataset(1).data["gravitational_potential"][c][k],
                      BaseDataset(2).data["gravitational_potential"][c][k])

----------------------------------------------------------------------------
(* LPthres.get_Teq(heat_ratio, nH).  An exception that a call raises in    *)
(* place of a number is the record Raise(name).                            *)

Raise(name) == [kind |-> name]
Raised(v) == v.kind \notin {"fin", "inf", "nan"}

\* the bracket of the bisection: 12.95 and 1e7
Bracket == <<Dec(1295, 2), Num(10000000)>>

\* scipy.optimize.bisect's defaults: xtol = 2e-12, rtol = 4 eps = 2^-50
\* (8.881784197001252e-16), maxiter = 100
xtol == Dec(2, 12)
rtol == Fin(1, -50, <<1>>)
maxiter == 100

\* the cooling and heating tables of coolftn (self.temp, self.cool,
\* self.heat), interpolated linearly between their nodes (interp1d): a
\* table that ends where the bracket ends, one that reaches beyond both
\* ends of it, one that starts above its lower end and one that stops
\* below its upper end
TableNodes ==
    {<<Dec(1295, 2), Num(10000), Num(10000000)>>,
     <<Num(10), Num(10000), Num(100000000)>>,
     <<Num(20), Num(10000), Num(10000000)>>,
     <<Dec(1295, 2), Num(10000), Num(1000000)>>}
CoolTables == [1..3 -> {Num(1), Num(3), Num(9)}]
HeatTables == [1..3 -> {Num(1), Num(2)}]

\* bisect raises ValueError when the function hands it a nan
nan_raises(f) == IF IsNaN(f) THEN Raise("ValueError") ELSE f

\* what a call makes of bisect's outcome r: an exception among caught is
\* replaced by nan, any other leaves the call
try_except(r, caught) ==
    IF r.error \in caught THEN [raised |-> "none", Teq |-> NaN]
    ELSE [raised |-> r.error, Teq |-> r.x]

\* numpy's interp between the nodes j and j + 1: y from the lower node
\* or, should that be nan, back from the upper one
interp_pick(fp, j, y, back) ==
    IF ~IsNaN(y) THEN y
    ELSE IF IsNaN(back) /\ Eq(fp[j], fp[j + 1]) THEN fp[j]
    ELSE back

interp_line(xp, fp, x, j, slope) ==
    interp_pick(fp, j, Add(Mul(slope, Sub(x, xp[j])), fp[j]),
                Add(Mul(slope, Sub(x, xp[j + 1])), fp[j + 1]))

\* x lies in xp[j] <= x < xp[j+1], or at the last node: the node's value at
\* a node
interp_at(xp, fp, x, j) ==
    IF j = Len(xp) \/ Eq(xp[j], x) THEN fp[j]
    ELSE interp_line(xp, fp, x, j, Div(Sub(fp[j + 1], fp[j]), Sub(xp[j + 1], xp[j])))

\* interp1d(xp, fp)(x), linear: a ValueError outside the table's range,
\* numpy's interp inside
interp1d(xp, fp, x) ==
    IF IsNaN(x) THEN x
    ELSE IF Less(x, xp[1]) \/ Less(xp[Len(xp)], x) THEN Raise("ValueError")
    ELSE interp_at(xp, fp, x,
                   CHOOSE k \in 1..Len(xp) :
                       ~Less(x, xp[k]) /\ (k = Len(xp) \/ Less(x, xp[k + 1])))

\* heat_ratio*h/nH - c of the interpolated h and c; an exception of either
\* is the call's, and bisect turns a nan value into a ValueError
balance_of(in, h, c) ==
    IF Raised(h) THEN h
    ELSE IF Raised(c) THEN c
    ELSE nan_raises(Sub(Div(Mul(in.heat_ratio, h), in.nH), c))

\* lambda x: heat_ratio*self.heatft(x)/nH - self.coolft(x)
balance(in, x) ==
    balance_of(in, interp1d(in.temp, in.heat, x), interp1d(in.temp, in.cool, x))

\* one turn of bisect's loop on s = [xa, dm] while s.status is "running":
\* halve dm, try xm = xa + dm, move the lower end when f(xm) f(xa) >= 0,
\* stop on a zero or when |dm| < xtol + rtol |xm|
bisect_try(s, fa, dm, xm, fm) ==
    IF Raised(fm) THEN [s EXCEPT !.status = fm.kind]
    ELSE [status |-> IF Eq(fm, Zero(1))
                          \/ Less(FAbs(dm), Add(xtol, Mul(rtol, FAbs(xm))))
                     THEN "converged" ELSE "running",
          xa |-> IF ~Less(Mul(fm, fa), Zero(1)) THEN xm ELSE s.xa,
          dm |-> dm,
          x |-> xm]

bisect_mid(in, fa, s, dm, xm) == bisect_try(s, fa, dm, xm, balance(in, xm))

bisect_half(in, fa, s, dm) == bisect_mid(in, fa, s, dm, Add(s.xa, dm))

bisect_turn(in, fa, s) == bisect_half(in, fa, s, Mul(s.dm, Fin(1, -1, <<1>>)))

\* n turns of the loop from s, or fewer when it stops: the first half of
\* the turns, then the rest
RECURSIVE bisect_loop(_, _, _, _)
bisect_loop(in, fa, s, n) ==
    IF s.status # "running" \/ n = 0 THEN s
    ELSE IF n = 1 THEN bisect_turn(in, fa, s)
    ELSE bisect_loop(in, fa, bisect_loop(in, fa, s, n \div 2), n - (n \div 2))

\* how the loop ended: a root, or RuntimeError after maxiter turns without
\* convergence
bisect_result(r) ==
    IF r.status = "converged" THEN [error |-> "none", x |-> r.x]
    ELSE IF r.status = "running" THEN [error |-> "RuntimeError", x |-> NaN]
    ELSE [error |-> r.status, x |-> NaN]

\* f at the end e of the bracket (1 or 2)
bisect_ends(in, a, b, f) ==
    IF Raised(f[1]) THEN [error |-> f[1].kind, x |-> NaN]
    ELSE IF Raised(f[2]) THEN [error |-> f[2].kind, x |-> NaN]
    ELSE IF Eq(f[1], Zero(1)) THEN [error |-> "none", x |-> a]
    ELSE IF Eq(f[2], Zero(1)) THEN [error |-> "none", x |-> b]
    ELSE IF f[1].sign = f[2].sign THEN [error |-> "ValueError", x |-> NaN]
    ELSE bisect_result(bisect_loop(in, f[1],
                           [status |-> "running", xa |-> a, dm |-> Sub(b, a), x |-> a],
                           maxiter))

\* scipy.optimize.bisect(f, a, b): a root at an end is returned at once,
\* equal signs at the ends are a ValueError
bisect(in, a, b) ==
    bisect_ends(in, a, b, [e \in 1..2 |-> balance(in, IF e = 1 THEN a ELSE b)])

\* the mutant: the ValueError is not caught
get_Teq_uncaught(in) == try_except(bisect(in, Bracket[1], Bracket[2]), {})

\* try: Teq = bisect(...)  except ValueError: Teq = np.nan
get_Teq(in) == try_except(bisect(in, Bracket[1], Bracket[2]), {"ValueError"})

TeqInit ==
    /\ teq \in [pc : {"args"}, heat_ratio : {Num(1), Num(4)},
                nH : {Dec(1, 1), Num(1), Num(8)},
                temp : TableNodes, heat : HeatTables, cool : CoolTables]
    /\ dat = Idle /\ ret = Idle /\ call = Idle
    /\ wm = Idle /\ gz = Idle /\ sne = Idle /\ agg = Idle

TeqCall ==
    /\ teq.pc = "args"
    /\ \E r \in {get_Teq(teq)} :
           teq' = [teq EXCEPT !.pc = "done"] @@ [raised |-> r.raised, Teq |-> r.Teq]
    /\ UNCHANGED <<dat, ret, call, wm, gz, sne, agg>>

SpecTeq == TeqInit /\ [][TeqCall]_vars

\* heat_ratio*heat(T)/nH - cool(T) at the end e of the bracket (1 or 2),
\* and its sign
EndValue(e) == balance(teq, Bracket[e])
EndSign(e) ==
    IF Less(EndValue(e), Zero(1)) THEN -1
    ELSE IF Less(Zero(1), EndValue(e)) THEN 1 ELSE 0
EndsDefined == ~Raised(EndValue(1)) /\ ~Raised(EndValue(2))

\* C10: get_Teq raises nothing for lack of a root: with one sign at both
\* ends of the bracket it returns not-a-number as an ordinary value, with
\* opposite signs a temperature inside the bracket; a table that does not
\* reach an end of the bracket gives not-a-number as well.
Thm_C10_NoRootIsNaN ==
    teq.pc = "done" =>
        /\ teq.raised = "none"
        /\ ~EndsDefined => IsNaN(teq.Teq)
        /\ EndsDefined /\ EndSign(1) * EndSign(2) > 0 => IsNaN(teq.Teq)
        /\ EndsDefined /\ EndSign(1) * EndSign(2) < 0 =>
              /\ IsFinite(teq.Teq)
              /\ ~Less(teq.Teq, Bracket[1])
              /\ ~Less(Bracket[2], teq.Teq)

\* cooling above heating at both ends of the bracket yet below it at
\* 1e4 K: the ends do not bracket the roots and the call hands back nan
Wit_C10_Unbracketed ==
    /\ teq.pc = "done"
    /\ EndsDefined
    /\ EndSign(1) < 0 /\ EndSign(2) < 0
    /\ Less(Zero(1), balance(teq, Num(10000)))
    /\ IsNaN(teq.Teq)
    /\ teq.raised = "none"

====
